---- MODULE Spec2Model ----
(***************************************************************************)
(* Model of experiments/benchmarks.py: the missingness-mask generator      *)
(* (generate_missing_mask), the grid search (fancyimpute_hpo with          *)
(* dict_product and evaluate_mse), the imputer wrappers and the experiment *)
(* driver.  Arrays are 0-based as in the source.  Three specifications     *)
(* share the module: SpecMask, SpecHpo and SpecExp.                        *)
(***************************************************************************)
EXTENDS Integers, Sequences, FiniteSets, TLC

VARIABLES
    pc,                 \* position of the function being executed
    X,                  \* the ground-truth matrix, X[r][c]
    mask,               \* the (evaluation) mask, mask[r][c]
    percent_missing,    \* generate_missing_mask: argument
    missing_at_random,  \* generate_missing_mask: argument
    n_cols_affected,    \* generate_missing_mask: line 102
    cols_permuted,      \* generate_missing_mask: line 104
    col_i,              \* generate_missing_mask: position of the loop of line 108
    ret,                \* the value returned to the caller ("none" before)
    imputer_fn,         \* the function called: impute_* or fancyimpute_hpo itself
    fancyimputer,       \* fancyimpute_hpo: argument (the adapter class)
    param_candidates,   \* fancyimpute_hpo: argument (the grid, keys in dict order)
    percent_validation, \* fancyimpute_hpo: argument
    all_param_candidates, \* fancyimpute_hpo: line 39
    validation_mask,    \* fancyimpute_hpo: line 47
    X_incomplete,       \* fancyimpute_hpo: lines 49-51 and 61-62
    X_imputed,          \* fancyimpute_hpo: lines 54 and 63; impute_datawig: line 82
    mse_hpo,            \* fancyimpute_hpo: line 52
    best_params,        \* fancyimpute_hpo: line 59
    calls,              \* every matrix handed to an imputation algorithm, in order
    percent_missing_list, \* experiment: argument
    loop,               \* experiment: the positions of the four nested loops
    missing_mask,       \* experiment: line 141, the number of the mask draw
    n_mask_draws,       \* the calls of generate_missing_mask so far
    results,            \* experiment: line 135
    invocations,        \* every imputer invocation of experiment, in order
    failed              \* an exception was raised inside experiment

gmVars == <<percent_missing, missing_at_random, n_cols_affected, cols_permuted, col_i>>
hpoVars == <<imputer_fn, fancyimputer, param_candidates, percent_validation,
             all_param_candidates, validation_mask, X_incomplete, X_imputed,
             mse_hpo, best_params, calls>>
expVars == <<percent_missing_list, loop, missing_mask, n_mask_draws, results,
             invocations, failed>>
vars == <<pc, X, mask, ret, gmVars, hpoVars, expVars>>

-----------------------------------------------------------------------------
(* Bounds of the model *)
MaxRows == 3
MaxCols == 4
MaxMarCells == 6
MaxCells == 4
MaxPercents == 2

NONE == "none"

-----------------------------------------------------------------------------
(* numpy helpers *)

\* X.shape[0], X.shape[1]
n_rows(M) == Cardinality(DOMAIN M)
n_cols(M) == Cardinality(DOMAIN M[0])

\* the index pairs of a matrix
positions(M) == (DOMAIN M) \X (DOMAIN M[0])

\* np.zeros(X.shape)
zeros(M) == [r \in DOMAIN M |-> [c \in DOMAIN M[0] |-> 0]]

\* column c of M: X[:, c]
column(M, c) == [r \in DOMAIN M |-> M[r][c]]

\* v.argsort(): the row indices in ascending order of value; equal values keep
\* their index order (numpy sorts arrays this short by insertion).
argsort(v) ==
    [i \in DOMAIN v |->
        CHOOSE r \in DOMAIN v :
            Cardinality({q \in DOMAIN v : v[q] < v[r] \/ (v[q] = v[r] /\ q < r)}) = i]

\* np.random.permutation(range(n)): every ordering of 0..n-1
permutations(n) ==
    {p \in [0..(n - 1) -> 0..(n - 1)] : \A i, j \in 0..(n - 1) : p[i] = p[j] => i = j}

\* np.random.randint(low, high): the draws, empty when the call raises ValueError
randint(low, high) == low..(high - 1)

\* mask > 0
greater_zero(M) == [r \in DOMAIN M |-> [c \in DOMAIN M[0] |-> M[r][c] > 0]]

-----------------------------------------------------------------------------
(* generate_missing_mask *)

\* cols_permuted[:n_cols_affected] and cols_permuted[n_cols_affected:]
cols_affected == {cols_permuted[i] : i \in 0..(n_cols_affected - 1)}
cols_unaffected == {cols_permuted[i] : i \in n_cols_affected..(n_cols(X) - 1)}

\* X.shape[0] // n_cols_affected
n_values_to_discard(M, k) == n_rows(M) \div k

\* range(discard_lower_start, discard_lower_start + n_values_to_discard)
discard_idx(start, n) == start..(start + n - 1)

\* X[:,depends_on_col].argsort()[discard_idx]
values_to_discard(M, depends_on_col, start, n) ==
    {argsort(column(M, depends_on_col))[i] : i \in discard_idx(start, n)}

\* mask[values_to_discard, col_affected] = 1
mark_missing_whole_column(m, rows, col) ==
    [r \in DOMAIN m |-> [c \in DOMAIN m[0] |-> IF c = col THEN 1 ELSE m[r][c]]]
mark_missing(m, rows, col) ==
    [r \in DOMAIN m |-> [c \in DOMAIN m[0] |->
        IF c = col /\ r \in rows THEN 1 ELSE m[r][c]]]

\* The uniform draws of np.random.rand, to the resolution of one half:
\* rand < percent_missing / 100.
RandLevels == {0, 50}
mar_mask(M, pm, u) == [r \in DOMAIN M |-> [c \in DOMAIN M[0] |-> u[r][c] < pm]]

\* line 98: the missing-at-random branch
GmAtRandom ==
    /\ pc = "gm_start"
    /\ missing_at_random
    /\ \E u \in [DOMAIN X -> [DOMAIN X[0] -> RandLevels]] :
          /\ mask' = mar_mask(X, percent_missing, u)
          /\ ret' = greater_zero([r \in DOMAIN X |-> [c \in DOMAIN X[0] |->
                                   IF mask'[r][c] THEN 1 ELSE 0]])
    /\ pc' = "gm_returned"
    /\ UNCHANGED <<X, gmVars, hpoVars, expVars>>

\* lines 100-106: the draw of the affected columns
GmDrawColumns ==
    /\ pc = "gm_start"
    /\ ~missing_at_random
    /\ randint(2, n_cols(X)) # {}
    /\ \E k \in randint(2, n_cols(X)), p \in permutations(n_cols(X)) :
          /\ n_cols_affected' = k
          /\ cols_permuted' = p
    /\ mask' = zeros(X)
    /\ col_i' = 0
    /\ pc' = "gm_loop"
    /\ UNCHANGED <<X, ret, percent_missing, missing_at_random, hpoVars, expVars>>

\* line 102 on a matrix of fewer than three columns: randint(2, n) raises
GmDrawColumnsRaises ==
    /\ pc = "gm_start"
    /\ ~missing_at_random
    /\ randint(2, n_cols(X)) = {}
    /\ pc' = "gm_raised"
    /\ UNCHANGED <<X, mask, ret, gmVars, hpoVars, expVars>>

\* lines 108-116: one iteration of the loop over cols_affected
GmColumn ==
    /\ pc = "gm_loop"
    /\ col_i < n_cols_affected
    /\ LET col_affected == cols_permuted[col_i]
           n == n_values_to_discard(X, n_cols_affected)
       IN  /\ randint(0, n_rows(X) - n - 1) # {}
           /\ \E depends_on_col \in cols_unaffected,
                 discard_lower_start \in randint(0, n_rows(X) - n - 1) :
                 mask' = mark_missing(mask,
                                      values_to_discard(X, depends_on_col,
                                                        discard_lower_start, n),
                                      col_affected)
    /\ col_i' = col_i + 1
    /\ UNCHANGED <<pc, X, ret, percent_missing, missing_at_random,
                   n_cols_affected, cols_permuted, hpoVars, expVars>>

\* line 113 when X.shape[0] - n_values_to_discard - 1 <= 0: randint raises
GmColumnRaises ==
    /\ pc = "gm_loop"
    /\ col_i < n_cols_affected
    /\ randint(0, n_rows(X) - n_values_to_discard(X, n_cols_affected) - 1) = {}
    /\ pc' = "gm_raised"
    /\ UNCHANGED <<X, mask, ret, gmVars, hpoVars, expVars>>

\* line 117
GmReturn ==
    /\ pc = "gm_loop"
    /\ col_i = n_cols_affected
    /\ ret' = greater_zero(mask)
    /\ pc' = "gm_returned"
    /\ UNCHANGED <<X, mask, gmVars, hpoVars, expVars>>

\* The complete matrices the generator is run on
DataValue(a, b, r, c) == (a * r + b * c + r * c) % 3
Matrices(nr, nc) ==
    {[r \in 0..(nr - 1) |-> [c \in 0..(nc - 1) |-> DataValue(a, b, r, c)]] :
        a \in 0..2, b \in 0..1}
PercentMissing == {0, 10, 100}

\* The variables of generate_missing_mask / of the imputers while another
\* function is the one being run
GmIdle ==
    /\ percent_missing = 0
    /\ missing_at_random = FALSE
    /\ n_cols_affected = 0
    /\ cols_permuted = <<>>
    /\ col_i = 0

HpoIdle ==
    /\ imputer_fn = NONE
    /\ fancyimputer = NONE
    /\ param_candidates = <<>>
    /\ percent_validation = 0
    /\ all_param_candidates = <<>>
    /\ validation_mask = NONE
    /\ X_incomplete = NONE
    /\ X_imputed = NONE
    /\ mse_hpo = <<>>
    /\ best_params = NONE
    /\ calls = <<>>

ExpIdle ==
    /\ percent_missing_list = <<>>
    /\ loop = NONE
    /\ missing_mask = 0
    /\ n_mask_draws = 0
    /\ results = <<>>
    /\ invocations = <<>>
    /\ failed = FALSE

InitMask ==
    /\ pc = "gm_start"
    /\ HpoIdle
    /\ ExpIdle
    /\ \E nr \in 1..MaxRows, nc \in 1..MaxCols : X \in Matrices(nr, nc)
    /\ percent_missing \in PercentMissing
    /\ missing_at_random \in BOOLEAN
    /\ missing_at_random => n_rows(X) * n_cols(X) <= MaxMarCells
    /\ mask = NONE
    /\ ret = NONE
    /\ n_cols_affected = 0
    /\ cols_permuted = <<>>
    /\ col_i = 0

NextMask ==
    \/ GmAtRandom
    \/ GmDrawColumns
    \/ GmDrawColumnsRaises
    \/ GmColumn
    \/ GmColumnRaises
    \/ GmReturn

SpecMask == InitMask /\ [][NextMask]_vars

-----------------------------------------------------------------------------
(* dict_product, evaluate_mse *)

\* A hyperparameter dict is the sequence of its <<key, values>> items in
\* insertion order; a candidate is a function from key to value.
hp_keys(hp_dict) == [i \in DOMAIN hp_dict |-> hp_dict[i][1]]
hp_values(hp_dict) == [i \in DOMAIN hp_dict |-> hp_dict[i][2]]

\* itertools.product(*lists): the last list varies fastest
RECURSIVE product(_)
product(lists) ==
    IF lists = <<>> THEN << <<>> >>
    ELSE LET hd == Head(lists)
             rest == product(Tail(lists))
         IN  [n \in 1..(Len(hd) * Len(rest)) |->
                <<hd[((n - 1) \div Len(rest)) + 1]>> \o rest[((n - 1) % Len(rest)) + 1]]

\* dict(zip(keys, vals))
dict_zip(keys, vals) ==
    [key \in {keys[i] : i \in DOMAIN keys} |->
        vals[CHOOSE i \in DOMAIN keys : keys[i] = key]]

\* zip(*lists) in place of itertools.product(*lists)
dict_product_zipped(hp_dict) ==
    LET vs == hp_values(hp_dict)
        n == IF vs = <<>> THEN 0
             ELSE CHOOSE m \in {Len(vs[i]) : i \in DOMAIN vs} :
                      \A i \in DOMAIN vs : m <= Len(vs[i])
    IN  [j \in 1..n |-> dict_zip(hp_keys(hp_dict), [i \in DOMAIN vs |-> vs[i][j]])]

dict_product(hp_dict) ==
    LET prod == product(hp_values(hp_dict))
    IN  [n \in DOMAIN prod |-> dict_zip(hp_keys(hp_dict), prod[n])]

\* np.nan as a matrix entry (the data and the fills are non-negative)
nan == -1

\* A float result: nan, or the exact quotient num / den
float_nan == [nan |-> TRUE, num |-> 0, den |-> 1]
float_of(num, den) == [nan |-> FALSE, num |-> num, den |-> den]

\* the positions a boolean mask selects
selected(m) == {p \in positions(m) : m[p[1]][p[2]]}

RECURSIVE sum_sq(_, _, _)
sum_sq(A, B, ps) ==
    IF ps = {} THEN 0
    ELSE LET p == CHOOSE q \in ps : TRUE
             d == A[p[1]][p[2]] - B[p[1]][p[2]]
         IN  d * d + sum_sq(A, B, ps \ {p})

\* ((X_imputed[mask] - X[mask]) ** 2).mean(): nan for an empty selection and
\* when a selected entry is nan
RECURSIVE sum_diff(_, _, _)
sum_diff(A, B, ps) ==
    IF ps = {} THEN 0
    ELSE LET p == CHOOSE q \in ps : TRUE
         IN  (A[p[1]][p[2]] - B[p[1]][p[2]]) + sum_diff(A, B, ps \ {p})

\* (X_imputed[mask] - X[mask]).mean(): the square left out
evaluate_mse_unsquared(Xi, Xt, m) ==
    IF selected(m) = {} THEN float_nan
    ELSE float_of(sum_diff(Xi, Xt, selected(m)), Cardinality(selected(m)))

evaluate_mse(Xi, Xt, m) ==
    IF selected(m) = {} THEN float_nan
    ELSE IF \E p \in selected(m) : Xi[p[1]][p[2]] = nan \/ Xt[p[1]][p[2]] = nan
    THEN float_nan
    ELSE float_of(sum_sq(Xi, Xt, selected(m)), Cardinality(selected(m)))

\* x >= y on floats: false when either is nan
float_ge(x, y) == ~x.nan /\ ~y.nan /\ x.num * y.den >= y.num * x.den

\* np.array(a).argmin(), 1-based: numpy scans from the left, replaces the
\* minimum by an element that is not >= it, and stops at the first nan
RECURSIVE argmin_scan(_, _, _)
argmin_scan(a, i, best) ==
    IF i > Len(a) THEN best
    ELSE IF ~float_ge(a[i], a[best])
         THEN IF a[i].nan THEN i ELSE argmin_scan(a, i + 1, i)
         ELSE argmin_scan(a, i + 1, best)

RECURSIVE argmin_scan_last(_, _, _)
argmin_scan_last(a, i, best) ==
    IF i > Len(a) THEN best
    ELSE IF ~float_ge(a[i], a[best]) \/ float_ge(a[best], a[i])
         THEN IF a[i].nan THEN i ELSE argmin_scan_last(a, i + 1, i)
         ELSE argmin_scan_last(a, i + 1, best)

\* the scan keeping the last of equal minima
argmin_last(a) == IF a[1].nan THEN 1 ELSE argmin_scan_last(a, 2, 1)

argmin(a) == IF a[1].nan THEN 1 ELSE argmin_scan(a, 2, 1)

-----------------------------------------------------------------------------
(* fancyimpute_hpo and the imputers *)

\* the linear index of entry (r, c) after reshape(np.prod(X.shape))
linear(M, r, c) == r * n_cols(M) + c

\* every linear index, the mask ignored
train_idx_all(M, m) == {linear(M, p[1], p[2]) : p \in positions(m)}

\* (mask.reshape(np.prod(X.shape)) == False).nonzero()[0]
train_idx(M, m) ==
    {linear(M, p[1], p[2]) : p \in {q \in positions(m) : ~m[q[1]][q[2]]}}

\* int(len(train_idx) * percent_validation/100)
n_validation(train, pv) == (Cardinality(train) * pv) \div 100

\* lines 45-47: zeros, validation_mask[validation_idx] = 1, reshape, > 0
make_validation_mask(M, validation_idx) ==
    [r \in DOMAIN M |-> [c \in DOMAIN M[0] |->
        \E i \in DOMAIN validation_idx : validation_idx[i] = linear(M, r, c)]]

\* mask | validation_mask
mask_or(a, b) == [r \in DOMAIN a |-> [c \in DOMAIN a[0] |-> a[r][c] \/ b[r][c]]]

\* Y = X.copy(); Y[m] = np.nan
set_nan(M, m) == [r \in DOMAIN M |-> [c \in DOMAIN M[0] |->
                    IF m[r][c] THEN nan ELSE M[r][c]]]

\* lines 49-51: the input of the search
search_input(M, m, vm) == set_nan(M, mask_or(m, vm))

\* the refit on the matrix of the search
refit_input_stale(M, m, vm) == set_nan(M, mask_or(m, vm))

\* lines 61-62: the input of the refit
refit_input(M, m, vm) == set_nan(M, m)

\* The adapter contract: fit_transform fills every nan entry and returns the
\* observed entries as they are.
FillValues == {0, 1}
fit_transform(Xin) ==
    LET missing == {p \in positions(Xin) : Xin[p[1]][p[2]] = nan}
    IN  {[r \in DOMAIN Xin |-> [c \in DOMAIN Xin[0] |->
            IF <<r, c>> \in missing THEN f[<<r, c>>] ELSE Xin[r][c]]] :
         f \in [missing -> FillValues]}

\* SimpleImputer.complete(df) imputes the nan entries of the frame it is given
complete(df) == fit_transform(df)

Call(algorithm, params, input, scored) ==
    [algorithm |-> algorithm, params |-> params, input |-> input, scored |-> scored]

\* line 69
ImputeMean ==
    /\ pc = "impute_start"
    /\ imputer_fn = "impute_mean"
    /\ fancyimputer' = "SimpleFill"
    /\ param_candidates' = << <<"fill_method", <<"mean">> >> >>
    /\ percent_validation' = 10
    /\ pc' = "hpo_start"
    /\ UNCHANGED <<expVars, X, mask, ret, gmVars, imputer_fn, all_param_candidates,
                   validation_mask, X_incomplete, X_imputed, mse_hpo, best_params, calls>>

\* line 72, with the default hyperparams of line 71
ImputeKnn ==
    /\ pc = "impute_start"
    /\ imputer_fn = "impute_knn"
    /\ fancyimputer' = "KNN"
    /\ param_candidates' = << <<"k", <<2, 4, 6>> >> >>
    /\ percent_validation' = 10
    /\ pc' = "hpo_start"
    /\ UNCHANGED <<expVars, X, mask, ret, gmVars, imputer_fn, all_param_candidates,
                   validation_mask, X_incomplete, X_imputed, mse_hpo, best_params, calls>>

\* line 76, with the default hyperparams of line 75
ImputeMf ==
    /\ pc = "impute_start"
    /\ imputer_fn = "impute_mf"
    /\ fancyimputer' = "MatrixFactorization"
    /\ param_candidates' = << <<"rank", <<5, 10, 50>> >>,
                              <<"l2_penalty", <<"1e-3", "1e-5">> >> >>
    /\ percent_validation' = 10
    /\ pc' = "hpo_start"
    /\ UNCHANGED <<expVars, X, mask, ret, gmVars, imputer_fn, all_param_candidates,
                   validation_mask, X_incomplete, X_imputed, mse_hpo, best_params, calls>>

\* lines 80-84: the frame is built from X itself
ImputeDatawig ==
    /\ pc = "impute_start"
    /\ imputer_fn = "impute_datawig"
    /\ \E df \in complete(X) :
          /\ X_imputed' = df
          /\ ret' = evaluate_mse(df, X, mask)
    /\ calls' = Append(calls, Call("SimpleImputer", <<>>, X, 0))
    /\ pc' = "returned"
    /\ UNCHANGED <<expVars, X, mask, gmVars, imputer_fn, fancyimputer, param_candidates,
                   percent_validation, all_param_candidates, validation_mask,
                   X_incomplete, mse_hpo, best_params>>

\* line 82 failing inside datawig
ImputeDatawigRaises ==
    /\ pc = "impute_start"
    /\ imputer_fn = "impute_datawig"
    /\ calls' = Append(calls, Call("SimpleImputer", <<>>, X, 0))
    /\ pc' = "raised"
    /\ UNCHANGED <<expVars, X, mask, ret, gmVars, imputer_fn, fancyimputer, param_candidates,
                   percent_validation, all_param_candidates, validation_mask,
                   X_incomplete, X_imputed, mse_hpo, best_params>>

\* lines 39-52: the candidates, the validation split and the search input
HpoSplit ==
    /\ pc = "hpo_start"
    /\ LET train == train_idx(X, mask)
       IN  \E validation_idx \in [1..n_validation(train, percent_validation) -> train] :
              /\ validation_mask' = make_validation_mask(X, validation_idx)
              /\ X_incomplete' = search_input(X, mask, validation_mask')
    /\ all_param_candidates' = dict_product(param_candidates)
    /\ mse_hpo' = <<>>
    /\ pc' = "hpo_search"
    /\ UNCHANGED <<expVars, X, mask, ret, gmVars, imputer_fn, fancyimputer, param_candidates,
                   percent_validation, X_imputed, best_params, calls>>

\* line 44 on a numpy whose choice() refuses an empty population even for
\* zero draws
HpoChoiceRaises ==
    /\ pc = "hpo_start"
    /\ train_idx(X, mask) = {}
    /\ all_param_candidates' = dict_product(param_candidates)
    /\ pc' = "raised"
    /\ UNCHANGED <<expVars, X, mask, ret, gmVars, imputer_fn, fancyimputer, param_candidates,
                   percent_validation, validation_mask, X_incomplete, X_imputed,
                   mse_hpo, best_params, calls>>

\* lines 53-57: one iteration of the search
HpoSearch ==
    /\ pc = "hpo_search"
    /\ Len(mse_hpo) < Len(all_param_candidates)
    /\ LET params == all_param_candidates[Len(mse_hpo) + 1]
       IN  /\ calls' = Append(calls, Call(fancyimputer, params, X_incomplete, Len(mse_hpo)))
           /\ \E out \in fit_transform(X_incomplete) :
                 /\ X_imputed' = out
                 /\ mse_hpo' = Append(mse_hpo, evaluate_mse(out, X, validation_mask))
    /\ UNCHANGED <<expVars, pc, X, mask, ret, gmVars, imputer_fn, fancyimputer, param_candidates,
                   percent_validation, all_param_candidates, validation_mask,
                   X_incomplete, best_params>>

\* line 54 when the adapter fails
HpoSearchRaises ==
    /\ pc = "hpo_search"
    /\ Len(mse_hpo) < Len(all_param_candidates)
    /\ calls' = Append(calls, Call(fancyimputer, all_param_candidates[Len(mse_hpo) + 1],
                                   X_incomplete, Len(mse_hpo)))
    /\ pc' = "raised"
    /\ UNCHANGED <<expVars, X, mask, ret, gmVars, imputer_fn, fancyimputer, param_candidates,
                   percent_validation, all_param_candidates, validation_mask,
                   X_incomplete, X_imputed, mse_hpo, best_params>>

\* lines 59-66: the selection, the refit and the result
HpoRefit ==
    /\ pc = "hpo_search"
    /\ Len(mse_hpo) = Len(all_param_candidates)
    /\ mse_hpo # <<>>
    /\ best_params' = all_param_candidates[argmin(mse_hpo)]
    /\ X_incomplete' = refit_input(X, mask, validation_mask)
    /\ calls' = Append(calls, Call(fancyimputer, best_params', X_incomplete', Len(mse_hpo)))
    /\ \E out \in fit_transform(X_incomplete') :
          /\ X_imputed' = out
          /\ ret' = evaluate_mse(out, X, mask)
    /\ pc' = "returned"
    /\ UNCHANGED <<expVars, X, mask, gmVars, imputer_fn, fancyimputer, param_candidates,
                   percent_validation, all_param_candidates, validation_mask, mse_hpo>>

\* line 63 when the adapter fails
HpoRefitRaises ==
    /\ pc = "hpo_search"
    /\ Len(mse_hpo) = Len(all_param_candidates)
    /\ mse_hpo # <<>>
    /\ best_params' = all_param_candidates[argmin(mse_hpo)]
    /\ X_incomplete' = refit_input(X, mask, validation_mask)
    /\ calls' = Append(calls, Call(fancyimputer, best_params', X_incomplete', Len(mse_hpo)))
    /\ pc' = "raised"
    /\ UNCHANGED <<expVars, X, mask, ret, gmVars, imputer_fn, fancyimputer, param_candidates,
                   percent_validation, all_param_candidates, validation_mask,
                   X_imputed, mse_hpo>>

\* line 59 with no candidate: argmin of an empty array raises ValueError
HpoArgminRaises ==
    /\ pc = "hpo_search"
    /\ all_param_candidates = <<>>
    /\ pc' = "raised"
    /\ UNCHANGED <<X, mask, ret, gmVars, hpoVars, expVars>>

\* The matrices and masks the imputers are run on: every shape of at most
\* MaxCells entries, every mask of that shape
Shapes == {s \in (1..MaxCells) \X (1..MaxCells) : s[1] * s[2] <= MaxCells}
Masks(nr, nc) == [0..(nr - 1) -> [0..(nc - 1) -> BOOLEAN]]

\* Direct calls of fancyimpute_hpo
DirectGrids == { << <<"k", <<2, 4, 6>> >> >>, << <<"k", <<>> >> >>, <<>> }
PercentValidation == {10, 50}

InitHpo ==
    /\ GmIdle
    /\ ExpIdle
    /\ \E s \in Shapes : X \in Matrices(s[1], s[2]) /\ mask \in Masks(s[1], s[2])
    /\ ret = NONE
    /\ imputer_fn \in {"impute_mean", "impute_knn", "impute_mf", "impute_datawig",
                       "fancyimpute_hpo"}
    /\ IF imputer_fn = "fancyimpute_hpo"
       THEN /\ pc = "hpo_start"
            /\ fancyimputer = "KNN"
            /\ param_candidates \in DirectGrids
            /\ percent_validation \in PercentValidation
       ELSE /\ pc = "impute_start"
            /\ fancyimputer = NONE
            /\ param_candidates = <<>>
            /\ percent_validation = 0
    /\ all_param_candidates = <<>>
    /\ validation_mask = NONE
    /\ X_incomplete = NONE
    /\ X_imputed = NONE
    /\ mse_hpo = <<>>
    /\ best_params = NONE
    /\ calls = <<>>

NextHpo ==
    \/ ImputeMean
    \/ ImputeKnn
    \/ ImputeMf
    \/ ImputeDatawig
    \/ ImputeDatawigRaises
    \/ HpoSplit
    \/ HpoChoiceRaises
    \/ HpoSearch
    \/ HpoSearchRaises
    \/ HpoRefit
    \/ HpoRefitRaises
    \/ HpoArgminRaises

SpecHpo == InitHpo /\ [][NextHpo]_vars

-----------------------------------------------------------------------------
(* get_data and experiment *)

\* lines 121-126 and 128-133, by __name__
DATA_LOADERS == <<"make_low_rank_matrix", "load_diabetes", "load_wine", "make_swiss_roll">>
imputers == <<"impute_mean", "impute_knn", "impute_mf", "impute_datawig">>

\* line 140, the two orders
missingness_values_reversed == <<FALSE, TRUE>>
missingness_values == <<TRUE, FALSE>>

\* get_data: the outcomes of a call.  `__name__ is '...'` compares identities:
\* it is true when the interpreter interned both strings and false otherwise,
\* and then no branch assigns X and `return X` raises UnboundLocalError, as it
\* does for a loader that no branch names.
RAISES == <<"raises", "UnboundLocalError">>
get_data(name) ==
    IF name \in {"make_low_rank_matrix", "make_swiss_roll"}
    THEN {<<"matrix", name>>, RAISES}
    ELSE IF name \in {"load_digits", "load_wine", "load_diabetes"}
    THEN {<<"matrix", name>>}
    ELSE {RAISES}

\* lines 144-150, the record of one combination
result_record(data, imputer, pm, mar, mse) ==
    [data |-> data, imputer |-> imputer, percent_missing |-> pm,
     missing_at_random |-> mar, mse |-> mse]

Loop(p, d, m, i) == [percent |-> p, data |-> d, mechanism |-> m, imputer |-> i]

\* line 141: generate_missing_mask draws a mask no earlier call returned
new_mask_draw(drawn, current) == drawn + 1

\* line 139
ExpGetData ==
    /\ pc = "exp_data"
    /\ \E out \in get_data(DATA_LOADERS[loop.data]) \ {RAISES} : X' = out
    /\ pc' = "exp_mask"
    /\ UNCHANGED <<mask, ret, gmVars, hpoVars, expVars>>

ExpGetDataRaises ==
    /\ pc = "exp_data"
    /\ RAISES \in get_data(DATA_LOADERS[loop.data])
    /\ failed' = TRUE
    /\ pc' = "raised"
    /\ UNCHANGED <<X, mask, ret, gmVars, hpoVars, percent_missing_list, loop,
                   missing_mask, n_mask_draws, results, invocations>>

\* line 141
ExpMask ==
    /\ pc = "exp_mask"
    /\ missing_mask' = new_mask_draw(n_mask_draws, missing_mask)
    /\ n_mask_draws' = n_mask_draws + 1
    /\ pc' = "exp_impute"
    /\ UNCHANGED <<X, mask, ret, gmVars, hpoVars, percent_missing_list, loop,
                   results, invocations, failed>>

ExpMaskRaises ==
    /\ pc = "exp_mask"
    /\ n_mask_draws' = n_mask_draws + 1
    /\ failed' = TRUE
    /\ pc' = "raised"
    /\ UNCHANGED <<X, mask, ret, gmVars, hpoVars, percent_missing_list, loop,
                   missing_mask, results, invocations>>

Invocation(l, draw, mse) ==
    [percent |-> l.percent, data |-> l.data, mechanism |-> l.mechanism,
     imputer |-> l.imputer, mask_draw |-> draw, mse |-> mse]

\* the for statements of lines 137-142 after one imputer ran
advance(l, n_percents) ==
    IF l.imputer < Len(imputers)
    THEN <<"exp_impute", Loop(l.percent, l.data, l.mechanism, l.imputer + 1)>>
    ELSE IF l.mechanism < Len(missingness_values)
    THEN <<"exp_mask", Loop(l.percent, l.data, l.mechanism + 1, 1)>>
    ELSE IF l.data < Len(DATA_LOADERS)
    THEN <<"exp_data", Loop(l.percent, l.data + 1, 1, 1)>>
    ELSE IF l.percent < n_percents
    THEN <<"exp_data", Loop(l.percent + 1, 1, 1, 1)>>
    ELSE <<"exp_return", l>>

\* The value the n-th call imputer_fn(X, missing_mask) of a run returns.
\* experiment stores it and never reads it, so any value may stand here: it
\* is left uninterpreted, one symbol for each call.
mse_of_call(n) == <<"mse", n>>

\* lines 143-152
ExpImpute ==
    /\ pc = "exp_impute"
    /\ LET mse == mse_of_call(Len(invocations) + 1)
           result == result_record(DATA_LOADERS[loop.data], imputers[loop.imputer],
                                   percent_missing_list[loop.percent],
                                   missingness_values[loop.mechanism], mse)
       IN  /\ invocations' = Append(invocations, Invocation(loop, missing_mask, mse))
           /\ results' = Append(results, result)
    /\ pc' = advance(loop, Len(percent_missing_list))[1]
    /\ loop' = advance(loop, Len(percent_missing_list))[2]
    /\ UNCHANGED <<X, mask, ret, gmVars, hpoVars, percent_missing_list, missing_mask,
                   n_mask_draws, failed>>

\* the imputer call of line 143 answering with an exception that a handler
\* turns into a nan result
ExpImputeSwallowed ==
    /\ pc = "exp_impute"
    /\ failed' = TRUE
    /\ invocations' = Append(invocations, Invocation(loop, missing_mask, <<"nan", 0>>))
    /\ results' = Append(results,
                         result_record(DATA_LOADERS[loop.data], imputers[loop.imputer],
                                       percent_missing_list[loop.percent],
                                       missingness_values[loop.mechanism], <<"nan", 0>>))
    /\ pc' = advance(loop, Len(percent_missing_list))[1]
    /\ loop' = advance(loop, Len(percent_missing_list))[2]
    /\ UNCHANGED <<X, mask, ret, gmVars, hpoVars, percent_missing_list, missing_mask,
                   n_mask_draws>>

\* line 143 when the imputer raises: nothing in experiment catches it
ExpImputeRaises ==
    /\ pc = "exp_impute"
    /\ failed' = TRUE
    /\ pc' = "raised"
    /\ UNCHANGED <<X, mask, ret, gmVars, hpoVars, percent_missing_list, loop,
                   missing_mask, n_mask_draws, results, invocations>>

\* line 153
ExpReturn ==
    /\ pc = "exp_return"
    /\ ret' = results
    /\ pc' = "returned"
    /\ UNCHANGED <<X, mask, gmVars, hpoVars, expVars>>

\* The sweeps experiment is called with
\* (every list of at most MaxPercents of the percentages of line 165)
PercentValues == {10, 30, 50}
PercentLists == UNION {[1..n -> PercentValues] : n \in 0..MaxPercents}

InitExp ==
    /\ GmIdle
    /\ HpoIdle
    /\ percent_missing_list \in PercentLists
    /\ loop = Loop(1, 1, 1, 1)
    /\ pc = IF percent_missing_list = <<>> THEN "exp_return" ELSE "exp_data"
    /\ X = NONE
    /\ mask = NONE
    /\ ret = NONE
    /\ missing_mask = 0
    /\ n_mask_draws = 0
    /\ results = <<>>
    /\ invocations = <<>>
    /\ failed = FALSE

NextExp ==
    \/ ExpGetData
    \/ ExpGetDataRaises
    \/ ExpMask
    \/ ExpMaskRaises
    \/ ExpImpute
    \/ ExpImputeRaises
    \/ ExpReturn

SpecExp == InitExp /\ [][NextExp]_vars

-----------------------------------------------------------------------------
(* Properties of generate_missing_mask *)

ReturnedNotAtRandom == pc = "gm_returned" /\ ~missing_at_random

HasTrue(m, c) == \E r \in DOMAIN m : m[r][c]
HasFalse(m, c) == \E r \in DOMAIN m : ~m[r][c]

MnarShape ==
    /\ \A c \in cols_affected : HasTrue(ret, c) /\ HasFalse(ret, c)
    /\ \A c \in cols_unaffected : ~HasTrue(ret, c)

\* C3 as stated: for every matrix X and every random outcome, the mask returned
\* with missing_at_random=False has a true and a false entry in every affected
\* column and no true entry in any unaffected column.
C3_AsStated == ReturnedNotAtRandom => MnarShape

\* C3 amended: the same, for every matrix with at least as many rows as
\* affected columns (n_samples >= n_cols_affected), where the run of
\* n_samples // n_cols_affected rows is not empty.
C3_MaskShape ==
    (ReturnedNotAtRandom /\ n_rows(X) >= n_cols_affected) => MnarShape

\* A mask was returned for a matrix with enough rows and at least two affected
\* columns, one of which has both a discarded and a kept entry.
C3_Witness ==
    /\ ReturnedNotAtRandom
    /\ n_rows(X) >= n_cols_affected
    /\ n_cols_affected >= 2
    /\ \E c \in cols_affected : HasTrue(ret, c) /\ HasFalse(ret, c)

-----------------------------------------------------------------------------
(* Properties of experiment *)

SameTriple(a, b) ==
    a.percent = b.percent /\ a.data = b.data /\ a.mechanism = b.mechanism

\* C2 as stated: no two imputer invocations of the same
\* (percent_missing, dataset, mechanism) triple receive the same mask draw.
C2_AsStated ==
    \A i, j \in DOMAIN invocations :
        (i # j /\ SameTriple(invocations[i], invocations[j]))
            => invocations[i].mask_draw # invocations[j].mask_draw

\* the number of a triple in the order experiment visits the triples
TripleNumber(a) == ((a.percent - 1) * 4 + (a.data - 1)) * 2 + a.mechanism

\* What experiment does, against C2: generate_missing_mask is called once for
\* each triple, outside the loop over the imputers, so the imputer invocations
\* of one triple all receive that one draw (the draw an invocation receives is
\* the one made for its triple, the draws being numbered as they are made).
C2_OneDrawPerTriple ==
    \A i \in DOMAIN invocations :
        invocations[i].mask_draw = TripleNumber(invocations[i])

\* The four imputers of one triple ran and the first of the next triple: the
\* state in which C2 as stated has failed.
C2_Witness ==
    /\ Len(invocations) >= 5
    /\ SameTriple(invocations[1], invocations[4])
    /\ ~SameTriple(invocations[4], invocations[5])

\* C9: once a step of experiment has failed the exception is the outcome:
\* experiment returns no result list, and no later combination is evaluated,
\* no mask drawn and no record added.
C9_FailurePropagates ==
    /\ [](failed => (pc = "raised" /\ ret = NONE))
    /\ [][failed => UNCHANGED <<pc, ret, results, invocations, n_mask_draws, loop>>]_vars

\* An imputer failed after records had been collected.
C9_Witness ==
    /\ failed
    /\ pc = "raised"
    /\ Len(results) >= 1
    /\ Len(results) < Len(percent_missing_list) * 32

\* C10: without a failure experiment returns one record for each element of
\* percent_missing_list x datasets x {True, False} x imputers, in nested-loop
\* order (percent outermost, then dataset, then mechanism with at-random
\* first, imputer innermost), each with the names, percent, flag and MSE of
\* its own combination.
C10_ResultRecords ==
    pc = "returned" =>
        /\ ~failed
        /\ ret = results
        /\ Len(ret) = Len(percent_missing_list) * 4 * 2 * 4
        /\ Len(invocations) = Len(ret)
        /\ \A n \in DOMAIN ret :
              LET k == n - 1
                  names == <<"impute_mean", "impute_knn", "impute_mf", "impute_datawig">>
                  loaders == <<"make_low_rank_matrix", "load_diabetes", "load_wine",
                               "make_swiss_roll">>
              IN  /\ ret[n].imputer = names[(k % 4) + 1]
                  /\ ret[n].missing_at_random = (((k \div 4) % 2) = 0)
                  /\ ret[n].data = loaders[((k \div 8) % 4) + 1]
                  /\ ret[n].percent_missing = percent_missing_list[(k \div 32) + 1]
                  /\ ret[n].mse = invocations[n].mse
                  /\ ret[n].mse = mse_of_call(n)
                  /\ invocations[n].imputer = (k % 4) + 1
                  /\ invocations[n].data = ((k \div 8) % 4) + 1

\* A sweep over two different percentages returned.
C10_Witness ==
    /\ pc = "returned"
    /\ Len(percent_missing_list) = 2
    /\ percent_missing_list[1] # percent_missing_list[2]
    /\ Len(ret) = 64

-----------------------------------------------------------------------------
(* Properties of the imputers and of fancyimpute_hpo *)

ViaHpo == imputer_fn \in {"impute_mean", "impute_knn", "impute_mf", "fancyimpute_hpo"}
HpoReturned == pc = "returned" /\ ViaHpo
SplitDone == pc = "hpo_search" \/ HpoReturned

nan_positions(M) == {p \in positions(M) : M[p[1]][p[2]] = nan}

\* C1 as stated: no matrix handed to an imputation algorithm, by any of the
\* four imputers, carries a value at a position where the evaluation mask is
\* true: every such position holds nan.
C1_AsStated ==
    \A i \in DOMAIN calls : selected(mask) \subseteq nan_positions(calls[i].input)

float_lt(x, y) == ~x.nan /\ ~y.nan /\ x.num * y.den < y.num * x.den

\* i is the first position of a minimum of a: nothing is smaller than a[i] and
\* everything before it is larger (for a list of nan only, position 1)
FirstMinimum(a, i) ==
    /\ \A j \in DOMAIN a : ~float_lt(a[j], a[i])
    /\ \A j \in 1..(i - 1) : float_lt(a[i], a[j])

\* C4: the refit uses the candidate of minimum validation MSE, the first in
\* enumeration order among equal minima, also when every validation MSE is nan
\* (empty validation mask).
C4_FirstMinimum ==
    HpoReturned =>
        \E i \in DOMAIN mse_hpo :
            /\ FirstMinimum(mse_hpo, i)
            /\ best_params = all_param_candidates[i]
            /\ calls[Len(calls)].params = all_param_candidates[i]

\* The minimum is shared by two candidates, neither of them the first one.
C4_Witness ==
    /\ HpoReturned
    /\ \E i, j \in DOMAIN mse_hpo :
          /\ 1 < i /\ i < j
          /\ FirstMinimum(mse_hpo, i)
          /\ ~float_lt(mse_hpo[i], mse_hpo[j]) /\ ~mse_hpo[j].nan
          /\ best_params = all_param_candidates[i]

NonNegativeReal(x) == ~x.nan /\ x.den > 0 /\ x.num >= 0
IsZero(x) == ~x.nan /\ x.num = 0
Reproduced == \A p \in selected(mask) : X_imputed[p[1]][p[2]] = X[p[1]][p[2]]

\* C5 as stated: for every X and every evaluation mask, a mask with no true
\* entry included, the returned value is a non-negative real and is 0 exactly
\* when the refit output equals X wherever the mask is true.
C5_AsStated ==
    HpoReturned => (NonNegativeReal(ret) /\ (IsZero(ret) <=> Reproduced))

\* C5 amended: the same for every evaluation mask with at least one true
\* entry; for a mask with no true entry the returned value is NaN.
C5_NonNegative ==
    /\ (HpoReturned /\ selected(mask) # {}) =>
            (NonNegativeReal(ret) /\ (IsZero(ret) <=> Reproduced))
    /\ (HpoReturned /\ selected(mask) = {}) => ret.nan

\* Two masked entries, both reproduced by the refit: the result is 0.
C5_Witness ==
    /\ HpoReturned
    /\ Cardinality(selected(mask)) >= 2
    /\ Reproduced
    /\ IsZero(ret)

\* C6: no position is in both the validation mask and the evaluation mask, and
\* the validation mask has at most
\* floor(training-eligible count * percent_validation / 100) true entries.
C6_ValidationMask ==
    SplitDone =>
        /\ selected(validation_mask) \cap selected(mask) = {}
        /\ Cardinality(selected(validation_mask)) * 100
             <= (Cardinality(positions(X)) - Cardinality(selected(mask)))
                  * percent_validation

\* A validation entry was drawn beside a non-empty evaluation mask.
C6_Witness ==
    /\ pc = "hpo_search"
    /\ selected(validation_mask) # {}
    /\ selected(mask) # {}

\* the number of candidates of a grid: the product of its value counts
RECURSIVE GridSize(_)
GridSize(hp_dict) ==
    IF hp_dict = <<>> THEN 1 ELSE Len(hp_dict[1][2]) * GridSize(Tail(hp_dict))

\* C7: the adapter is invoked at most N + 1 times; a call that returns made
\* N + 1 invocations: the candidates in enumeration order, each before its
\* score was appended, then one refit after all N scores.
C7_AdapterCalls ==
    (ViaHpo /\ pc # "impute_start") =>
        /\ Len(calls) <= GridSize(param_candidates) + 1
        /\ HpoReturned =>
              /\ Len(calls) = GridSize(param_candidates) + 1
              /\ Len(all_param_candidates) = GridSize(param_candidates)
              /\ \A i \in DOMAIN all_param_candidates :
                    /\ calls[i].params = all_param_candidates[i]
                    /\ calls[i].scored = i - 1
              /\ calls[Len(calls)].scored = Len(all_param_candidates)

\* A single-candidate grid: the split drew a validation entry, the search ran
\* once and the refit once.
C7_Witness ==
    /\ HpoReturned
    /\ Len(all_param_candidates) = 1
    /\ Len(calls) = 2
    /\ selected(validation_mask) # {}

\* C8: every matrix fancyimpute_hpo hands to the adapter has at least as many
\* nan as the evaluation mask has true entries; in the search the nan are
\* exactly the evaluation mask and the validation mask, in the refit exactly
\* the evaluation mask, every other entry being the ground truth.
C8_Sentinels ==
    ViaHpo =>
        \A i \in DOMAIN calls :
            LET input == calls[i].input
            IN  /\ Cardinality(nan_positions(input)) >= Cardinality(selected(mask))
                /\ \A p \in positions(X) \ nan_positions(input) :
                      input[p[1]][p[2]] = X[p[1]][p[2]]
                /\ IF i <= Len(all_param_candidates)
                   THEN nan_positions(input)
                          = selected(mask) \cup selected(validation_mask)
                   ELSE nan_positions(input) = selected(mask)

\* The refit was handed the ground truth at a validation position.
C8_Witness ==
    /\ HpoReturned
    /\ selected(mask) # {}
    /\ \E p \in selected(validation_mask) :
          calls[Len(calls)].input[p[1]][p[2]] = X[p[1]][p[2]]

====
